---- MODULE Spec2Model ----
(***************************************************************************)
(* Model of the turn-based grid game served over WebSocket.                *)
(*                                                                         *)
(*   server/gameState.js  GameStateManager: the Store (this.state) and the *)
(*                        rules (addPlayer, removePlayer, executeMove,     *)
(*                        executeAttack, executePlaceObstacle, ...)        *)
(*   server/index.js      the message handlers handleJoin,                 *)
(*                        handleRequestAction, handleResetGame and         *)
(*                        handleDisconnect and the clients map             *)
(*                                                                         *)
(* Every method of GameStateManager is an operator from a Store value to a *)
(* result; a method that throws returns the Store it was given together    *)
(* with the message of the Error.  The handlers are operators on the whole *)
(* server (Store, clients map, UUIDs issued) and the actions of Next apply *)
(* them to inputs drawn from small sets.                                   *)
(*                                                                         *)
(* Encodings: JavaScript null is Null for an id, NullPos for a position    *)
(* and NoName for winner; a string that the code inspects character by     *)
(* character (pseudo, colour) is a sequence of one-character strings;      *)
(* randomUUID() is the next value of a counter, so that an id is never     *)
(* issued twice.  Connections carry no token, so the pseudo always comes   *)
(* from the payload and userId is null.                                    *)
(***************************************************************************)
EXTENDS Integers, Sequences, FiniteSets, TLC

VARIABLES
    state,      \* game.state, the Store
    clients,    \* the clients map: one entry per connection accepted so far
    uuids,      \* how many UUIDs randomUUID() has issued
    actions     \* how many action requests have succeeded (bounded below)

vars == <<state, clients, uuids, actions>>

----------------------------------------------------------------------------
(* Constants of server/gameState.js *)

MAX_PLAYERS == 4
PLAYER_HP == 10
(* an obstacle that takes two hits *)
OBSTACLE_HP_TwoHits == 2 * 2

OBSTACLE_HP == 2
OBSTACLE_STOCK == 3
(* an attack that costs the attacker 8 pdv *)
ATTACK_COST_Heavy == 2 * 4

ATTACK_COST == 0
ATTACK_DAMAGE == 2
MOVE_RANGE == 3
ATTACK_RANGE == 2
ALLOWED_GRID_SIZES == {9}
DefaultGridSize == 9

(* Bounds of the model *)

MaxSockets == 4     \* connections the server accepts in one behaviour
MaxActions == 1     \* successful action requests in one behaviour

(* null *)

Null == -1
NullPos == [x |-> Null, y |-> Null]
NoName == <<>>

Pos(px, py) == [x |-> px, y |-> py]

----------------------------------------------------------------------------
(* Small helpers standing for JavaScript built-ins *)

Abs(n) == IF n < 0 THEN -n ELSE n

Sign(n) == IF n > 0 THEN 1 ELSE IF n < 0 THEN -1 ELSE 0

IsSpace(ch) == ch = " "

RECURSIVE TrimStart(_)
TrimStart(str) ==
    IF str # <<>> /\ IsSpace(Head(str)) THEN TrimStart(Tail(str)) ELSE str

RECURSIVE TrimEnd(_)
TrimEnd(str) ==
    IF str # <<>> /\ IsSpace(str[Len(str)])
    THEN TrimEnd(SubSeq(str, 1, Len(str) - 1))
    ELSE str

Trim(str) == TrimEnd(TrimStart(str))

LowerHex == {"a", "b", "c", "d", "e", "f"}
UpperHex == {"A", "B", "C", "D", "E", "F"}
Digits == {"0", "1", "2", "3", "4", "5", "6", "7", "8", "9"}

UpperChar(ch) ==
    CASE ch = "a" -> "A" [] ch = "b" -> "B" [] ch = "c" -> "C"
      [] ch = "d" -> "D" [] ch = "e" -> "E" [] ch = "f" -> "F"
      [] ch = "g" -> "G"
      [] OTHER -> ch

ToUpperCase(str) == [i \in 1..Len(str) |-> UpperChar(str[i])]

(* Array.prototype.findIndex on the roster: 0-based, -1 when absent *)
FindIndex(players, pid) ==
    IF \E i \in 1..Len(players) : players[i].id = pid
    THEN (CHOOSE i \in 1..Len(players) :
             /\ players[i].id = pid
             /\ \A j \in 1..(i - 1) : players[j].id # pid) - 1
    ELSE -1

(* Array.prototype.splice(index, 1), index 0-based *)
Splice(seq, index) ==
    SubSeq(seq, 1, index) \o SubSeq(seq, index + 2, Len(seq))

ActivePlayers(s) == SelectSeq(s.players, LAMBDA p : p.status = "Active")

----------------------------------------------------------------------------
(* GameStateManager *)

createInitialState(gridSize) ==
    [ gameStatus |-> "Lobby",
      gridSize |-> gridSize,
      players |-> <<>>,
      obstacles |-> <<>>,
      currentPlayerTurn |-> Null,
      winner |-> NoName,
      winnerId |-> Null ]

setGridSizeIfLobby(s, size) ==
    IF \/ s.gameStatus # "Lobby"
       \/ Len(s.players) > 0
       \/ size \notin ALLOWED_GRID_SIZES
    THEN s
    ELSE [s EXCEPT !.gridSize = size]

(* normalizeColor whose pattern has no end anchor *)
normalizeColor_NoEndAnchor(color) ==
    LET trimmed == Trim(color) IN
    IF /\ Len(trimmed) >= 7
       /\ trimmed[1] = "#"
       /\ \A i \in 2..7 : trimmed[i] \in Digits \cup LowerHex \cup UpperHex
    THEN ToUpperCase(trimmed)
    ELSE <<>>

normalizeColor(color) ==
    LET trimmed == Trim(color) IN
    IF /\ Len(trimmed) = 7
       /\ trimmed[1] = "#"
       /\ \A i \in 2..7 : trimmed[i] \in Digits \cup LowerHex \cup UpperHex
    THEN ToUpperCase(trimmed)
    ELSE <<>>

(* getStartingPositions that goes down the left side before the right one *)
getStartingPositions_ColumnFirst(s) ==
    LET size == s.gridSize - 1 IN
    << Pos(0, 0), Pos(0, size), Pos(size, 0), Pos(size, size) >>

getStartingPositions(s) ==
    LET size == s.gridSize - 1 IN
    << Pos(0, 0), Pos(size, 0), Pos(0, size), Pos(size, size) >>

getPlayerAt(s, position) ==
    LET hits == { i \in 1..Len(s.players) :
                    /\ s.players[i].status = "Active"
                    /\ s.players[i].position.x = position.x
                    /\ s.players[i].position.y = position.y }
    IN IF hits = {} THEN Null
       ELSE s.players[CHOOSE i \in hits : \A j \in hits : i <= j].id

getObstacleAt(s, position) ==
    LET hits == { i \in 1..Len(s.obstacles) :
                    /\ s.obstacles[i].position.x = position.x
                    /\ s.obstacles[i].position.y = position.y }
    IN IF hits = {} THEN Null
       ELSE s.obstacles[CHOOSE i \in hits : \A j \in hits : i <= j].id

(* isOccupied that forgets the obstacles *)
isOccupied_PlayersOnly(s, position) == getPlayerAt(s, position) # Null

isOccupied(s, position) ==
    getPlayerAt(s, position) # Null \/ getObstacleAt(s, position) # Null

isStraightLine(a, b) == a.x = b.x \/ a.y = b.y

distance(a, b) == Abs(a.x - b.x) + Abs(a.y - b.y)

(* isAdjacent without the diagonals *)
isAdjacent_Orthogonal(a, b) == Abs(a.x - b.x) + Abs(a.y - b.y) = 1

isAdjacent(a, b) ==
    /\ Abs(a.x - b.x) <= 1
    /\ Abs(a.y - b.y) <= 1
    /\ ~(a.x = b.x /\ a.y = b.y)

ensureTargetValid(s, target) ==
    ~ \/ target = NullPos
      \/ target.x < 0
      \/ target.x >= s.gridSize
      \/ target.y < 0
      \/ target.y >= s.gridSize


(* while (x !== target.x || y !== target.y) of isPathClear, from cell (x, y) *)
RECURSIVE PathScan(_, _, _, _, _, _)
PathScan(s, x, y, dx, dy, target) ==
    IF x # target.x \/ y # target.y
    THEN IF isOccupied(s, Pos(x, y))
         THEN FALSE
         ELSE PathScan(s, x + dx, y + dy, dx, dy, target)
    ELSE ~isOccupied(s, target)

(* isPathClear that looks at the destination only *)
isPathClear_DestinationOnly(s, start, target) == ~isOccupied(s, target)

isPathClear(s, start, target) ==
    LET dx == Sign(target.x - start.x)
        dy == Sign(target.y - start.y)
    IN PathScan(s, start.x + dx, start.y + dy, dx, dy, target)

NoEntity == [type |-> "none", id |-> Null]

(* the while loop of findFirstEntity, from cell (x, y) *)
RECURSIVE RayScan(_, _, _, _, _, _, _)
RayScan(s, start, x, y, dx, dy, target) ==
    IF /\ x >= 0
       /\ y >= 0
       /\ x < s.gridSize
       /\ y < s.gridSize
       /\ Abs(x - start.x) + Abs(y - start.y) <= ATTACK_RANGE
    THEN IF getPlayerAt(s, Pos(x, y)) # Null
         THEN [type |-> "player", id |-> getPlayerAt(s, Pos(x, y))]
         ELSE IF getObstacleAt(s, Pos(x, y)) # Null
         THEN [type |-> "obstacle", id |-> getObstacleAt(s, Pos(x, y))]
         ELSE IF x = target.x /\ y = target.y
         THEN NoEntity
         ELSE RayScan(s, start, x + dx, y + dy, dx, dy, target)
    ELSE NoEntity

(* findFirstEntity that looks at the target cell only *)
findFirstEntity_AtTarget(s, start, target) ==
    IF getPlayerAt(s, target) # Null
    THEN [type |-> "player", id |-> getPlayerAt(s, target)]
    ELSE IF getObstacleAt(s, target) # Null
    THEN [type |-> "obstacle", id |-> getObstacleAt(s, target)]
    ELSE NoEntity

findFirstEntity(s, start, target) ==
    LET dx == Sign(target.x - start.x)
        dy == Sign(target.y - start.y)
    IN RayScan(s, start, start.x + dx, start.y + dy, dx, dy, target)

(* markPlayerDefeated that takes the player's obstacles off the grid *)
markPlayerDefeated_ClearsObstacles(s, playerId) ==
    [s EXCEPT !.players =
        [i \in 1..Len(s.players) |->
            IF s.players[i].id = playerId /\ s.players[i].status # "Defeated"
            THEN [s.players[i] EXCEPT !.status = "Defeated",
                                      !.position = NullPos]
            ELSE s.players[i]],
              !.obstacles = SelectSeq(s.obstacles, LAMBDA o : o.ownerId # playerId)]

(* markPlayerDefeated that leaves the defeated player on its cell *)
markPlayerDefeated_StaysOnBoard(s, playerId) ==
    [s EXCEPT !.players =
        [i \in 1..Len(s.players) |->
            IF s.players[i].id = playerId /\ s.players[i].status # "Defeated"
            THEN [s.players[i] EXCEPT !.status = "Defeated"]
            ELSE s.players[i]]]

markPlayerDefeated(s, playerId) ==
    [s EXCEPT !.players =
        [i \in 1..Len(s.players) |->
            IF s.players[i].id = playerId /\ s.players[i].status # "Defeated"
            THEN [s.players[i] EXCEPT !.status = "Defeated",
                                      !.position = NullPos]
            ELSE s.players[i]]]

(* checkVictory that records the first player of the roster as the winner *)
checkVictory_FirstSeat(s) ==
    LET active == ActivePlayers(s) IN
    IF Len(active) = 1 /\ s.gameStatus = "InProgress"
    THEN [s EXCEPT !.gameStatus = "Finished",
                   !.winner = s.players[1].pseudo,
                   !.winnerId = s.players[1].id]
    ELSE IF Len(active) = 0 /\ s.gameStatus = "InProgress"
    THEN [s EXCEPT !.gameStatus = "Finished",
                   !.winner = NoName,
                   !.winnerId = Null]
    ELSE s

checkVictory(s) ==
    LET active == ActivePlayers(s) IN
    IF Len(active) = 1 /\ s.gameStatus = "InProgress"
    THEN [s EXCEPT !.gameStatus = "Finished",
                   !.winner = active[1].pseudo,
                   !.winnerId = active[1].id]
    ELSE IF Len(active) = 0 /\ s.gameStatus = "InProgress"
    THEN [s EXCEPT !.gameStatus = "Finished",
                   !.winner = NoName,
                   !.winnerId = Null]
    ELSE s

(* this.state.players.forEach(...) of cleanupAfterAction, from seat i *)
RECURSIVE MarkDead(_, _)
MarkDead(s, i) ==
    IF i > Len(s.players) THEN s
    ELSE MarkDead(IF s.players[i].pdv <= 0
                  THEN markPlayerDefeated(s, s.players[i].id)
                  ELSE s,
                  i + 1)

cleanupAfterAction(s) ==
    LET pruned == [s EXCEPT !.obstacles =
                      SelectSeq(s.obstacles, LAMBDA o : o.pdv > 0)]
    IN checkVictory(MarkDead(pruned, 1))

(* the for loop of advanceTurn stopping on the next seat, Active or not *)
NextActiveIndex_NoSkip(players, currentIndex) ==
    ((currentIndex + 1) % Len(players)) + 1

(* the for loop of advanceTurn: the first Active seat after currentIndex *)
NextActiveIndex(players, currentIndex) ==
    LET n == Len(players)
        seat(k) == ((currentIndex + k) % n) + 1
        found == { k \in 1..n : players[seat(k)].status = "Active" }
    IN IF found = {} THEN Null
       ELSE seat(CHOOSE k \in found : \A j \in found : k <= j)

advanceTurn(s) ==
    IF s.gameStatus # "InProgress" THEN s
    ELSE IF Len(ActivePlayers(s)) <= 1 THEN checkVictory(s)
    ELSE LET currentIndex == FindIndex(s.players, s.currentPlayerTurn)
             next == NextActiveIndex(s.players, currentIndex)
         IN IF next # Null
            THEN [s EXCEPT !.currentPlayerTurn = s.players[next].id]
            ELSE [s EXCEPT !.currentPlayerTurn = Null]


(* The result of a method that may throw: err is the message of the Error,  *)
(* or Ok; state and uuids are what the call leaves behind.                  *)
Ok == ""

Result(err, s, u) == [err |-> err, state |-> s, uuids |-> u]

(* requireActivePlayer: the message it throws, or Ok *)
requireActivePlayer(s, playerId) ==
    LET index == FindIndex(s.players, playerId) IN
    IF index = -1 THEN "Joueur introuvable."
    ELSE IF s.players[index + 1].status # "Active" THEN "Joueur deja elimine."
    ELSE Ok

PlayerOf(s, playerId) == s.players[FindIndex(s.players, playerId) + 1]

SetPlayer(s, playerId, player) ==
    [s EXCEPT !.players[FindIndex(s.players, playerId) + 1] = player]

(* addPlayer that starts the game once 3 players are seated *)
addPlayer_StartsEarly(s, u, pseudo, color, gridSizeOverride) ==
    IF Len(s.players) >= MAX_PLAYERS
    THEN Result("Le lobby est complet.", s, u)
    ELSE IF Len(Trim(pseudo)) = 0
    THEN Result("Pseudo invalide.", s, u)
    ELSE IF normalizeColor(color) = <<>>
    THEN Result("Couleur invalide.", s, u)
    ELSE
      LET player == [ id |-> u + 1,
                      pseudo |-> Trim(pseudo),
                      couleur |-> normalizeColor(color),
                      pdv |-> PLAYER_HP,
                      position |-> getStartingPositions(s)[Len(s.players) + 1],
                      obstaclesRestants |-> OBSTACLE_STOCK,
                      status |-> "Active" ]
          pushed == [s EXCEPT !.players = Append(s.players, player)]
      IN Result(Ok,
                IF Len(pushed.players) >= MAX_PLAYERS - 1
                THEN [pushed EXCEPT !.gameStatus = "InProgress",
                                    !.currentPlayerTurn = pushed.players[1].id]
                ELSE pushed,
                u + 1)

addPlayer(s, u, pseudo, color, gridSizeOverride) ==
    IF Len(s.players) >= MAX_PLAYERS
    THEN Result("Le lobby est complet.", s, u)
    ELSE IF Len(Trim(pseudo)) = 0
    THEN Result("Pseudo invalide.", s, u)
    ELSE IF normalizeColor(color) = <<>>
    THEN Result("Couleur invalide.", s, u)
    ELSE
      LET sized == IF gridSizeOverride # Null
                   THEN setGridSizeIfLobby(s, gridSizeOverride)
                   ELSE s
          player == [ id |-> u + 1,
                      pseudo |-> Trim(pseudo),
                      couleur |-> normalizeColor(color),
                      pdv |-> PLAYER_HP,
                      position |-> getStartingPositions(sized)[Len(sized.players) + 1],
                      obstaclesRestants |-> OBSTACLE_STOCK,
                      status |-> "Active" ]
          pushed == [sized EXCEPT !.players = Append(sized.players, player)]
      IN Result(Ok,
                IF Len(pushed.players) = MAX_PLAYERS
                THEN [pushed EXCEPT !.gameStatus = "InProgress",
                                    !.currentPlayerTurn = pushed.players[1].id]
                ELSE pushed,
                u + 1)

(* removePlayer that does not start afresh when the roster becomes empty   *)
removePlayer_KeepsEmptied(s, playerId) ==
    LET index == FindIndex(s.players, playerId) IN
    IF index = -1 THEN s
    ELSE [s EXCEPT !.players = Splice(s.players, index)]

(* removePlayer that advances the turn for a player it does not find       *)
removePlayer_AdvancesAnyway(s, playerId) ==
    LET index == FindIndex(s.players, playerId) IN
    IF index = -1 THEN advanceTurn(s)
    ELSE
      LET player == s.players[index + 1]
          spliced == [s EXCEPT !.players = Splice(s.players, index)]
      IN IF Len(spliced.players) = 0
         THEN createInitialState(spliced.gridSize)
         ELSE IF player.status = "Active" /\ spliced.gameStatus = "InProgress"
         THEN checkVictory(advanceTurn(markPlayerDefeated(spliced, player.id)))
         ELSE IF spliced.gameStatus = "Lobby"
         THEN [spliced EXCEPT !.players =
                  [i \in 1..Len(spliced.players) |->
                      [spliced.players[i] EXCEPT
                          !.position = getStartingPositions(spliced)[i]]]]
         ELSE spliced

(* removePlayer that moves the remaining players to the corners whenever  *)
(* the leaver was not an Active player of a game in progress              *)
removePlayer_AlwaysShifts(s, playerId) ==
    LET index == FindIndex(s.players, playerId) IN
    IF index = -1 THEN s
    ELSE
      LET player == s.players[index + 1]
          spliced == [s EXCEPT !.players = Splice(s.players, index)]
      IN IF Len(spliced.players) = 0
         THEN createInitialState(spliced.gridSize)
         ELSE IF player.status = "Active" /\ spliced.gameStatus = "InProgress"
         THEN checkVictory(advanceTurn(markPlayerDefeated(spliced, player.id)))
         ELSE [spliced EXCEPT !.players =
                  [i \in 1..Len(spliced.players) |->
                      [spliced.players[i] EXCEPT
                          !.position = getStartingPositions(spliced)[i]]]]

(* removePlayer that passes the turn on only when the leaver held it       *)
removePlayer_AdvancesForHolder(s, playerId) ==
    LET index == FindIndex(s.players, playerId) IN
    IF index = -1 THEN s
    ELSE
      LET player == s.players[index + 1]
          spliced == [s EXCEPT !.players = Splice(s.players, index)]
      IN IF Len(spliced.players) = 0
         THEN createInitialState(spliced.gridSize)
         ELSE IF player.status = "Active" /\ spliced.gameStatus = "InProgress"
         THEN checkVictory(IF player.id = spliced.currentPlayerTurn
                           THEN advanceTurn(markPlayerDefeated(spliced, player.id))
                           ELSE markPlayerDefeated(spliced, player.id))
         ELSE IF spliced.gameStatus = "Lobby"
         THEN [spliced EXCEPT !.players =
                  [i \in 1..Len(spliced.players) |->
                      [spliced.players[i] EXCEPT
                          !.position = getStartingPositions(spliced)[i]]]]
         ELSE spliced

removePlayer(s, playerId) ==
    LET index == FindIndex(s.players, playerId) IN
    IF index = -1 THEN s
    ELSE
      LET player == s.players[index + 1]
          spliced == [s EXCEPT !.players = Splice(s.players, index)]
      IN IF Len(spliced.players) = 0
         THEN createInitialState(spliced.gridSize)
         ELSE IF player.status = "Active" /\ spliced.gameStatus = "InProgress"
         THEN checkVictory(advanceTurn(markPlayerDefeated(spliced, player.id)))
         ELSE IF spliced.gameStatus = "Lobby"
         THEN [spliced EXCEPT !.players =
                  [i \in 1..Len(spliced.players) |->
                      [spliced.players[i] EXCEPT
                          !.position = getStartingPositions(spliced)[i]]]]
         ELSE spliced

(* executeMove that moves the player before it looks at the path *)
executeMove_MovesFirst(s, u, playerId, target) ==
    IF requireActivePlayer(s, playerId) # Ok
    THEN Result(requireActivePlayer(s, playerId), s, u)
    ELSE IF ~ensureTargetValid(s, target)
    THEN Result("Case hors limites.", s, u)
    ELSE
      LET player == PlayerOf(s, playerId)
          moved == SetPlayer(s, playerId, [player EXCEPT !.position = target])
      IN
      IF ~isStraightLine(player.position, target)
      THEN Result("Le deplacement doit etre en ligne droite.", s, u)
      ELSE IF \/ distance(player.position, target) = 0
              \/ distance(player.position, target) > MOVE_RANGE
      THEN Result("La distance maximale est de 3 cases.", s, u)
      ELSE IF ~isPathClear(s, player.position, target)
      THEN Result("Trajet bloque par un joueur ou un obstacle.", moved, u)
      ELSE Result(Ok, advanceTurn(cleanupAfterAction(moved)), u)

executeMove(s, u, playerId, target) ==
    IF requireActivePlayer(s, playerId) # Ok
    THEN Result(requireActivePlayer(s, playerId), s, u)
    ELSE IF ~ensureTargetValid(s, target)
    THEN Result("Case hors limites.", s, u)
    ELSE
      LET player == PlayerOf(s, playerId) IN
      IF ~isStraightLine(player.position, target)
      THEN Result("Le deplacement doit etre en ligne droite.", s, u)
      ELSE IF \/ distance(player.position, target) = 0
              \/ distance(player.position, target) > MOVE_RANGE
      THEN Result("La distance maximale est de 3 cases.", s, u)
      ELSE IF ~isPathClear(s, player.position, target)
      THEN Result("Trajet bloque par un joueur ou un obstacle.", s, u)
      ELSE
        LET moved == SetPlayer(s, playerId, [player EXCEPT !.position = target])
        IN Result(Ok, advanceTurn(cleanupAfterAction(moved)), u)

(* entityHit.entity.pdv -= ATTACK_DAMAGE and what follows it in executeAttack *)
Strike(s, entityHit) ==
    IF entityHit.type = "player"
    THEN LET victim == PlayerOf(s, entityHit.id)
             hurt == SetPlayer(s, entityHit.id,
                               [victim EXCEPT !.pdv = victim.pdv - ATTACK_DAMAGE])
         IN IF victim.pdv - ATTACK_DAMAGE <= 0
            THEN markPlayerDefeated(hurt, entityHit.id)
            ELSE hurt
    ELSE LET hurt == [s EXCEPT !.obstacles =
                        [i \in 1..Len(s.obstacles) |->
                            IF s.obstacles[i].id = entityHit.id
                            THEN [s.obstacles[i] EXCEPT
                                     !.pdv = s.obstacles[i].pdv - ATTACK_DAMAGE]
                            ELSE s.obstacles[i]]]
             struck == CHOOSE i \in 1..Len(s.obstacles) :
                          s.obstacles[i].id = entityHit.id
         IN IF hurt.obstacles[struck].pdv <= 0
            THEN [hurt EXCEPT !.obstacles =
                     SelectSeq(hurt.obstacles, LAMBDA o : o.id # entityHit.id)]
            ELSE hurt

executeAttack(s, u, playerId, target) ==
    IF requireActivePlayer(s, playerId) # Ok
    THEN Result(requireActivePlayer(s, playerId), s, u)
    ELSE IF ~ensureTargetValid(s, target)
    THEN Result("Case hors limites.", s, u)
    ELSE
      LET player == PlayerOf(s, playerId) IN
      IF ~isStraightLine(player.position, target)
      THEN Result("Attaque en ligne droite uniquement.", s, u)
      ELSE IF \/ distance(player.position, target) = 0
              \/ distance(player.position, target) > ATTACK_RANGE
      THEN Result("La portee maximale est de 2 cases.", s, u)
      ELSE
        LET entityHit == findFirstEntity(s, player.position, target)
            explicitTarget == IF getPlayerAt(s, target) # Null
                              THEN getPlayerAt(s, target)
                              ELSE getObstacleAt(s, target)
        IN IF entityHit = NoEntity
           THEN Result("Aucune cible dans cette direction.", s, u)
           ELSE IF explicitTarget # Null /\ entityHit.id # explicitTarget
           THEN Result("Une entite bloque votre attaque.", s, u)
           ELSE
             LET paid == SetPlayer(s, playerId,
                                   [player EXCEPT !.pdv = player.pdv - ATTACK_COST])
                 caster == IF player.pdv - ATTACK_COST <= 0
                           THEN markPlayerDefeated(paid, playerId)
                           ELSE paid
             IN Result(Ok,
                       advanceTurn(cleanupAfterAction(Strike(caster, entityHit))),
                       u)

(* executePlaceObstacle that does not take the obstacle from the stock *)
executePlaceObstacle_KeepsStock(s, u, playerId, target) ==
    IF requireActivePlayer(s, playerId) # Ok
    THEN Result(requireActivePlayer(s, playerId), s, u)
    ELSE IF ~ensureTargetValid(s, target)
    THEN Result("Case hors limites.", s, u)
    ELSE
      LET player == PlayerOf(s, playerId) IN
      IF player.obstaclesRestants <= 0
      THEN Result("Plus d'obstacles disponibles.", s, u)
      ELSE IF ~isAdjacent(player.position, target)
      THEN Result("La case doit etre adjacente.", s, u)
      ELSE IF isOccupied(s, target)
      THEN Result("Case deja occupee.", s, u)
      ELSE
        LET obstacle == [ id |-> u + 1,
                          position |-> target,
                          pdv |-> OBSTACLE_HP,
                          ownerId |-> playerId ]
            pushed == [s EXCEPT !.obstacles = Append(s.obstacles, obstacle)]
        IN Result(Ok, advanceTurn(cleanupAfterAction(pushed)), u + 1)

executePlaceObstacle(s, u, playerId, target) ==
    IF requireActivePlayer(s, playerId) # Ok
    THEN Result(requireActivePlayer(s, playerId), s, u)
    ELSE IF ~ensureTargetValid(s, target)
    THEN Result("Case hors limites.", s, u)
    ELSE
      LET player == PlayerOf(s, playerId) IN
      IF player.obstaclesRestants <= 0
      THEN Result("Plus d'obstacles disponibles.", s, u)
      ELSE IF ~isAdjacent(player.position, target)
      THEN Result("La case doit etre adjacente.", s, u)
      ELSE IF isOccupied(s, target)
      THEN Result("Case deja occupee.", s, u)
      ELSE
        LET obstacle == [ id |-> u + 1,
                          position |-> target,
                          pdv |-> OBSTACLE_HP,
                          ownerId |-> playerId ]
            pushed == [s EXCEPT !.obstacles = Append(s.obstacles, obstacle)]
            spent == SetPlayer(pushed, playerId,
                               [player EXCEPT !.obstaclesRestants =
                                                  player.obstaclesRestants - 1])
        IN Result(Ok, advanceTurn(cleanupAfterAction(spent)), u + 1)

(* resetGame that leaves the obstacles on the board *)
resetGame_KeepsObstacles(s) ==
    [createInitialState(IF s.gridSize # Null THEN s.gridSize ELSE DefaultGridSize)
       EXCEPT !.obstacles = s.obstacles]

resetGame(s) ==
    createInitialState(IF s.gridSize # Null THEN s.gridSize ELSE DefaultGridSize)


----------------------------------------------------------------------------
(* server/index.js: the clients map and the message handlers.              *)
(* A server value w holds the Store, the clients map, the UUID counter and *)
(* reply, the last message the handler that produced w sent to its caller. *)
(* The reply is an output: the state of the model keeps the other three.   *)
(* clients[c] is the metadata of the c-th connection accepted; a           *)
(* connection deleted from the map has type "closed".                      *)

Server(s, cl, r, u) == [state |-> s, clients |-> cl, reply |-> r, uuids |-> u]

(* A message to the caller: its type and, for ACTION_INVALID, its text *)
Message(type, message) == [type |-> type, message |-> message]

Spectator == [type |-> "spectator", playerId |-> Null]
Closed == [type |-> "closed", playerId |-> Null]

parseGridSize(value) == IF value \in ALLOWED_GRID_SIZES THEN value ELSE Null

(* wss.on("connection"): register the socket as a spectator, send the state *)
onConnection(w) ==
    Server(w.state, Append(w.clients, Spectator),
           Message("GAME_STATE_UPDATE", ""), w.uuids)

(* what broadcastGameState sends last *)
Broadcast(s) ==
    IF s.gameStatus = "Finished"
    THEN Message("GAME_OVER", "")
    ELSE Message("GAME_STATE_UPDATE", "")

(* The catch of a handler answers ACTION_INVALID and restores nothing: the  *)
(* Store stays as the throwing method left it.                              *)
handleJoin(w, c, payload) ==
    IF w.clients[c].type = "player"
    THEN Server(w.state, w.clients,
                Message("ACTION_INVALID", "Player already joined."), w.uuids)
    ELSE IF \/ Len(w.state.players) >= MAX_PLAYERS
            \/ w.state.gameStatus # "Lobby"
    THEN Server(w.state, w.clients,
                Message("JOINED_AS_SPECTATOR",
                        "Game full or already started, you are a spectator."),
                w.uuids)
    ELSE
      LET r == addPlayer(w.state, w.uuids, payload.pseudo, payload.color,
                         parseGridSize(payload.gridSize))
      IN IF r.err # Ok
         THEN Server(r.state, w.clients, Message("ACTION_INVALID", r.err), r.uuids)
         ELSE Server(r.state,
                     [w.clients EXCEPT ![c] = [type |-> "player",
                                               playerId |-> r.uuids]],
                     Message("JOINED_AS_PLAYER", ""),
                     r.uuids)

(* the switch (payload.actionType) of handleRequestAction *)
Dispatch(s, u, playerId, payload) ==
    CASE payload.actionType = "MOVE" ->
           executeMove(s, u, playerId, payload.target)
      [] payload.actionType = "ATTACK" ->
           executeAttack(s, u, playerId, payload.target)
      [] payload.actionType = "PLACE_OBSTACLE" ->
           executePlaceObstacle(s, u, playerId, payload.target)
      [] OTHER -> Result("Unknown action.", s, u)

(* handleRequestAction without the currentPlayerTurn check *)
handleRequestAction_AnyTurn(w, c, payload) ==
    IF w.clients[c].type # "player"
    THEN Server(w.state, w.clients,
                Message("ACTION_INVALID", "Spectators are not allowed."), w.uuids)
    ELSE IF w.state.gameStatus # "InProgress"
    THEN Server(w.state, w.clients,
                Message("ACTION_INVALID", "Game must be in progress."), w.uuids)
    ELSE
      LET r == Dispatch(w.state, w.uuids, w.clients[c].playerId, payload)
      IN IF r.err # Ok
         THEN Server(r.state, w.clients, Message("ACTION_INVALID", r.err), r.uuids)
         ELSE Server(r.state, w.clients, Broadcast(r.state), r.uuids)

handleRequestAction(w, c, payload) ==
    IF w.clients[c].type # "player"
    THEN Server(w.state, w.clients,
                Message("ACTION_INVALID", "Spectators are not allowed."), w.uuids)
    ELSE IF w.state.gameStatus # "InProgress"
    THEN Server(w.state, w.clients,
                Message("ACTION_INVALID", "Game must be in progress."), w.uuids)
    ELSE IF w.state.currentPlayerTurn # w.clients[c].playerId
    THEN Server(w.state, w.clients,
                Message("ACTION_INVALID", "Not your turn."), w.uuids)
    ELSE
      LET r == Dispatch(w.state, w.uuids, w.clients[c].playerId, payload)
      IN IF r.err # Ok
         THEN Server(r.state, w.clients, Message("ACTION_INVALID", r.err), r.uuids)
         ELSE Server(r.state, w.clients, Broadcast(r.state), r.uuids)

(* handleResetGame without the gameStatus check *)
handleResetGame_AnyStatus(w, c) ==
    Server(resetGame(w.state),
           [i \in 1..Len(w.clients) |->
               IF w.clients[i].type = "closed" THEN Closed ELSE Spectator],
           Message("GAME_STATE_UPDATE", ""),
           w.uuids)

handleResetGame(w, c) ==
    IF w.state.gameStatus # "Finished"
    THEN Server(w.state, w.clients,
                Message("ACTION_INVALID", "Game is not finished yet."), w.uuids)
    ELSE Server(resetGame(w.state),
                [i \in 1..Len(w.clients) |->
                    IF w.clients[i].type = "closed" THEN Closed ELSE Spectator],
                Message("GAME_STATE_UPDATE", ""),
                w.uuids)

(* ws.on("close"): handleDisconnect, then clients.delete(ws) *)
handleDisconnect(w, c) ==
    Server(IF w.clients[c].type = "player"
           THEN removePlayer(w.state, w.clients[c].playerId)
           ELSE w.state,
           [w.clients EXCEPT ![c] = Closed],
           Message("NONE", ""),
           w.uuids)

----------------------------------------------------------------------------
(* Inputs *)

Pseudos == { <<>>, <<" ">>, <<"a">>, <<" ", "a", " ">> }

Colors == { <<"#", "f", "f", "0", "0", "a", "a">>,
            <<" ", "#", "F", "F", "0", "0", "A", "A">>,
            <<"#", "f", "f", "f">>,
            <<"f", "f", "0", "0", "a", "a", "0">>,
            <<"#", "f", "f", "0", "0", "a", "g">> }

GridSizes == {Null, 9, 7}

JoinPayload(pseudo, color, gridSize) ==
    [pseudo |-> pseudo, color |-> color, gridSize |-> gridSize]

ValidPseudo == <<"a">>
ValidColor == <<"#", "f", "f", "0", "0", "a", "a">>

(* each pseudo, each colour and each grid size, the other fields valid *)
JoinPayloads ==
    { JoinPayload(pseudo, ValidColor, Null) : pseudo \in Pseudos }
    \cup { JoinPayload(ValidPseudo, color, Null) : color \in Colors }
    \cup { JoinPayload(ValidPseudo, ValidColor, size) : size \in GridSizes }

ActionTypes == {"MOVE", "ATTACK", "PLACE_OBSTACLE", "PASS"}

ActionPayload(actionType, target) ==
    [actionType |-> actionType, target |-> target]

(* every cell of the grid, the cells just outside it, and a missing target *)
Targets ==
    { Pos(px, py) : px \in -1..DefaultGridSize, py \in -1..DefaultGridSize }

(* The targets the model sends with an action from position p: every      *)
(* target the action can succeed on (the four lines up to the range, the   *)
(* eight neighbours) and some it cannot (one cell past the range, the own  *)
(* cell, a cell off every line, a missing target).  A rejected request     *)
(* leaves the state alone, so the states reached are those reached with    *)
(* all of Targets.                                                         *)
Line(range) ==
    { Pos(dx, 0) : dx \in -range..range } \cup { Pos(0, dy) : dy \in -range..range }

Offsets(actionType) ==
    CASE actionType = "MOVE" -> Line(MOVE_RANGE + 1) \cup {Pos(1, 2)}
      [] actionType = "ATTACK" -> Line(ATTACK_RANGE + 1) \cup {Pos(1, 1)}
      [] actionType = "PLACE_OBSTACLE" ->
           { Pos(dx, dy) : dx \in -1..1, dy \in -1..1 } \cup {Pos(2, 0)}
      [] OTHER -> {Pos(0, 0)}

TargetsFrom(p, actionType) ==
    { Pos(p.x + o.x, p.y + o.y) : o \in Offsets(actionType) }
    \cup (IF actionType = "MOVE" THEN {NullPos} ELSE {})

----------------------------------------------------------------------------
(* The state machine *)

World == Server(state, clients, Message("NONE", ""), uuids)

Becomes(w) ==
    /\ state' = w.state
    /\ clients' = w.clients
    /\ uuids' = w.uuids

Open == { c \in 1..Len(clients) : clients[c].type # "closed" }

HoldsTurn(c) ==
    /\ clients[c].type = "player"
    /\ state.gameStatus = "InProgress"
    /\ state.currentPlayerTurn = clients[c].playerId
    /\ requireActivePlayer(state, clients[c].playerId) = Ok

(* The payloads the model sends from socket c.  handleRequestAction reads   *)
(* the payload only for the turn holder, so one payload stands for all of   *)
(* them from any other socket.                                              *)
ActionPayloadsOf(c) ==
    IF HoldsTurn(c)
    THEN UNION { { ActionPayload(type, target) :
                     target \in TargetsFrom(PlayerOf(state, clients[c].playerId).position,
                                            type) } :
                 type \in ActionTypes }
    ELSE { ActionPayload("MOVE", Pos(0, 0)) }

(* handleJoin reads the payload only when it reaches addPlayer. *)
JoinPayloadsOf(c) ==
    IF /\ clients[c].type # "player"
       /\ Len(state.players) < MAX_PLAYERS
       /\ state.gameStatus = "Lobby"
    THEN JoinPayloads
    ELSE { JoinPayload(ValidPseudo, ValidColor, Null) }

(* Sockets are interchangeable: among the open sockets that have not        *)
(* joined, the model lets the oldest one send the join.                     *)
Joiners ==
    { c \in Open :
        \/ clients[c].type = "player"
        \/ \A d \in Open : clients[d].type = "spectator" => c <= d }

(* new GameStateManager() and new Map(): the server as it starts *)
Started ==
    Server(createInitialState(DefaultGridSize), <<>>, Message("NONE", ""), 0)

(* One message of a recorded game: a connection, a join from socket c, an  *)
(* action sent by the socket of the turn holder, or socket c closing.      *)
Connects == [op |-> "connect"]
Joins(c) == [op |-> "join", c |-> c]
Acts(actionType, px, py) ==
    [op |-> "act", payload |-> ActionPayload(actionType, Pos(px, py))]
Closes(c) == [op |-> "close", c |-> c]

TurnSocket(w) ==
    CHOOSE c \in 1..Len(w.clients) :
        /\ w.clients[c].type = "player"
        /\ w.clients[c].playerId = w.state.currentPlayerTurn

Handle(w, step) ==
    CASE step.op = "connect" -> onConnection(w)
      [] step.op = "join" ->
           handleJoin(w, step.c, JoinPayload(ValidPseudo, ValidColor, Null))
      [] step.op = "act" -> handleRequestAction(w, TurnSocket(w), step.payload)
      [] step.op = "close" -> handleDisconnect(w, step.c)

RECURSIVE Run(_, _)
Run(w, script) ==
    IF script = <<>> THEN w ELSE Run(Handle(w, Head(script)), Tail(script))

(* A recorded game of four players, P1..P4 by join order, on sockets 1..4, *)
(* in four parts.  Opening: P1 and P2 meet on row 0, P3 and P4 come under  *)
(* them on row 2; P2 spends its three obstacles and P3 places one between  *)
(* itself and P1.                                                          *)
Opening ==
    << Connects, Connects, Connects, Connects,
       Joins(1), Joins(2), Joins(3), Joins(4),
       Acts("MOVE", 3, 0), Acts("MOVE", 5, 0),
       Acts("MOVE", 0, 5), Acts("MOVE", 8, 5),
       Acts("ATTACK", 5, 0), Acts("PLACE_OBSTACLE", 6, 0),
       Acts("MOVE", 0, 2), Acts("MOVE", 8, 2),
       Acts("ATTACK", 5, 0), Acts("PLACE_OBSTACLE", 6, 1),
       Acts("MOVE", 3, 2), Acts("MOVE", 5, 2),
       Acts("ATTACK", 5, 0), Acts("PLACE_OBSTACLE", 4, 1),
       Acts("PLACE_OBSTACLE", 3, 1), Acts("ATTACK", 3, 2) >>

(* Exchange: P1 clears P3's obstacle; two rounds of attacks leave P2 and   *)
(* P4 one hit from defeat.                                                 *)
Exchange ==
    << Acts("ATTACK", 3, 1), Acts("ATTACK", 5, 2),
       Acts("ATTACK", 5, 2), Acts("ATTACK", 3, 2),
       Acts("ATTACK", 5, 0), Acts("ATTACK", 5, 2),
       Acts("ATTACK", 5, 2), Acts("ATTACK", 3, 2) >>

(* Falls: P2 falls to P1, then P3 falls to P1; the turn is P4's *)
Falls ==
    << Acts("ATTACK", 5, 0),
       Acts("ATTACK", 3, 0), Acts("ATTACK", 3, 2),
       Acts("ATTACK", 3, 2) >>

(* Approach: P4 places an obstacle, P1 walks over to face P4, P4 places    *)
(* another; the turn is P1's.                                              *)
Approach ==
    << Acts("PLACE_OBSTACLE", 6, 2), Acts("MOVE", 5, 0),
       Acts("PLACE_OBSTACLE", 6, 3) >>

Gathered == Run(Started, Opening)
Wounded == Run(Gathered, Exchange)
LastTwo == Run(Wounded, Falls)
Duel == Run(LastTwo, Approach)

(* The moments of the recorded game the model starts from *)
Checkpoints == {Started, Gathered, Wounded, LastTwo, Duel}

Init ==
    \E w \in Checkpoints :
        /\ state = w.state
        /\ clients = w.clients
        /\ uuids = w.uuids
        /\ actions = 0
Connect ==
    /\ Len(clients) < MaxSockets
    /\ Becomes(onConnection(World))
    /\ UNCHANGED actions

Join(c, payload) ==
    /\ Becomes(handleJoin(World, c, payload))
    /\ UNCHANGED actions

(* A request answered ACTION_INVALID leaves state, clients and uuids as    *)
(* they were (the reply is an output), so it is a stuttering step; the     *)
(* steps of RequestAction are the accepted requests.                       *)
RequestAction(c, payload) ==
    LET w == handleRequestAction(World, c, payload) IN
    /\ actions < MaxActions
    /\ w.reply.type # "ACTION_INVALID"
    /\ Becomes(w)
    /\ actions' = actions + 1

ResetGame(c) ==
    /\ Becomes(handleResetGame(World, c))
    /\ UNCHANGED actions

Close(c) ==
    /\ Becomes(handleDisconnect(World, c))
    /\ UNCHANGED actions

Next ==
    \/ Connect
    \/ \E c \in Joiners : \E payload \in JoinPayloadsOf(c) : Join(c, payload)
    \/ \E c \in Open : \E payload \in ActionPayloadsOf(c) : RequestAction(c, payload)
    \/ \E c \in Open : ResetGame(c)
    \/ \E c \in Open : Close(c)

Spec == Init /\ [][Next]_vars

(* The game alone: from the same moments, players act and sockets close;  *)
(* nobody connects, joins or resets.                                       *)
Played ==
    \/ \E c \in Open : \E payload \in ActionPayloadsOf(c) : RequestAction(c, payload)
    \/ \E c \in Open : Close(c)

Game == Init /\ [][Played]_vars

(* The turns alone: from the same moments, and from each of them one       *)
(* departure later, players act; nothing else happens.                     *)
Departures ==
    UNION { { handleDisconnect(w, c) : c \in 1..Len(w.clients) } :
            w \in Checkpoints }

Seated ==
    \E w \in Checkpoints \cup Departures :
        /\ state = w.state
        /\ clients = w.clients
        /\ uuids = w.uuids
        /\ actions = 0

Acted ==
    \E c \in Open : \E payload \in ActionPayloadsOf(c) : RequestAction(c, payload)

Turns == Seated /\ [][Acted]_vars


----------------------------------------------------------------------------
(* Vocabulary of the properties *)

Roster(s) == { s.players[i] : i \in 1..Len(s.players) }

ObstacleSet(s) == { s.obstacles[i] : i \in 1..Len(s.obstacles) }

ActiveSet(s) == { p \in Roster(s) : p.status = "Active" }

InGrid(s, t) == t.x \in 0..(s.gridSize - 1) /\ t.y \in 0..(s.gridSize - 1)

(* a cell holds an entity: an Active player or an obstacle stands on it *)
Holds(s, cell) ==
    \/ \E p \in ActiveSet(s) : p.position = cell
    \/ \E o \in ObstacleSet(s) : o.position = cell

(* the cells of the straight segment from p (exclusive) to t (inclusive) *)
Between(a, b) == IF a < b THEN (a + 1)..b ELSE b..(a - 1)

Segment(p, t) ==
    IF p.y = t.y THEN { Pos(px, p.y) : px \in Between(p.x, t.x) }
    ELSE IF p.x = t.x THEN { Pos(p.x, py) : py \in Between(p.y, t.y) }
    ELSE {}

(* the cell of a non-empty set of cells that is nearest to p *)
Nearest(p, cells) ==
    CHOOSE cell \in cells :
        \A other \in cells :
            Abs(cell.x - p.x) + Abs(cell.y - p.y)
              <= Abs(other.x - p.x) + Abs(other.y - p.y)

Manhattan(a, b) ==
    (IF a.x < b.x THEN b.x - a.x ELSE a.x - b.x)
    + (IF a.y < b.y THEN b.y - a.y ELSE a.y - b.y)

(* the sockets whose player may act now, and what the server answers them *)
Holders == { c \in Open : HoldsTurn(c) }

Holder(c) == PlayerOf(state, clients[c].playerId)

Try(c, actionType, t) == handleRequestAction(World, c, ActionPayload(actionType, t))

Accepted(w) == w.reply.type # "ACTION_INVALID"

(* the same player after a step, by id *)
Same(s, p) == CHOOSE q \in Roster(s) : q.id = p.id

(* a socket that connects now: the server after the connection, and the   *)
(* index of the new socket                                                 *)
Newcomer == onConnection(World)

NewSocket == Len(clients) + 1

----------------------------------------------------------------------------
(* C1  Join capacity: a join that leaves fewer than 4 players in the roster *)
(* leaves the status Lobby and currentPlayerTurn null; the join that seats  *)
(* the 4th player sets the status to InProgress and currentPlayerTurn to    *)
(* the id of the first player of the roster.  A join is the only step that  *)
(* lengthens the roster, and it does so from Lobby.                         *)
C1_JoinCapacity ==
    [][ Len(state'.players) > Len(state.players) =>
          /\ state.gameStatus = "Lobby"
          /\ state.currentPlayerTurn = Null
          /\ Len(state'.players) = Len(state.players) + 1
          /\ IF Len(state'.players) < MAX_PLAYERS
             THEN /\ state'.gameStatus = "Lobby"
                  /\ state'.currentPlayerTurn = Null
             ELSE /\ state'.gameStatus = "InProgress"
                  /\ state'.currentPlayerTurn = state'.players[1].id ]_vars

(* the 4th join of a game started from the empty lobby has just succeeded *)
C1_FourthJoined ==
    /\ state.gameStatus = "InProgress"
    /\ Len(state.players) = MAX_PLAYERS
    /\ uuids = MAX_PLAYERS
    /\ actions = 0
    /\ state.currentPlayerTurn = state.players[1].id

(* C2  Shared preconditions: an action request from any socket is answered  *)
(* ACTION_INVALID and leaves the Store (the turn included) as it was when   *)
(* the status is not InProgress, or the socket's player is not in the       *)
(* roster, or is not Active, or does not hold the turn.                     *)
PayloadsOf(c) ==
    IF /\ clients[c].type = "player"
       /\ requireActivePlayer(state, clients[c].playerId) = Ok
    THEN UNION { { ActionPayload(type, target) :
                     target \in TargetsFrom(Holder(c).position, type) } :
                 type \in ActionTypes }
    ELSE { ActionPayload(type, Pos(0, 1)) : type \in ActionTypes }

C2_PreconditionsRejected ==
    \A c \in Open :
        LET pid == clients[c].playerId IN
        ( \/ state.gameStatus # "InProgress"
          \/ \A p \in Roster(state) : p.id # pid
          \/ \E p \in Roster(state) : p.id = pid /\ p.status # "Active"
          \/ state.currentPlayerTurn # pid )
        => \A payload \in PayloadsOf(c) :
              LET w == handleRequestAction(World, c, payload) IN
              /\ w.reply.type = "ACTION_INVALID"
              /\ w.state = state
              /\ w.uuids = uuids

(* during a game, an Active player who does not hold the turn is refused a  *)
(* move that would be legal, and a Defeated player is refused too           *)
C2_RefusedOutOfTurn ==
    /\ state.gameStatus = "InProgress"
    /\ actions = 1
    /\ \E c \in Open :
          /\ clients[c].type = "player"
          /\ Holder(c).status = "Defeated"
          /\ Try(c, "MOVE", Pos(0, 1)).reply = Message("ACTION_INVALID", "Not your turn.")
    /\ \E c \in Open :
          /\ clients[c].type = "player"
          /\ Holder(c).status = "Active"
          /\ \E payload \in PayloadsOf(c) :
                /\ handleRequestAction(World, c, payload).reply
                     = Message("ACTION_INVALID", "Not your turn.")
                /\ Dispatch(state, uuids, clients[c].playerId, payload).err = Ok

(* C3  One entity per cell: no two Active players share a position, no two  *)
(* obstacles share a position, and no obstacle stands on the position of    *)
(* an Active player.                                                        *)
C3_OneEntityPerCell ==
    /\ \A i, j \in 1..Len(state.players) :
          /\ i # j
          /\ state.players[i].status = "Active"
          /\ state.players[j].status = "Active"
          => state.players[i].position # state.players[j].position
    /\ \A i, j \in 1..Len(state.obstacles) :
          i # j => state.obstacles[i].position # state.obstacles[j].position
    /\ \A p \in ActiveSet(state), o \in ObstacleSet(state) :
          p.position # o.position

(* four Active players and four obstacles stand close together after an    *)
(* action                                                                  *)
C3_CrowdedBoard ==
    /\ actions = 1
    /\ Cardinality(ActiveSet(state)) = 4
    /\ Len(state.obstacles) >= 4
    /\ \E p \in ActiveSet(state), o \in ObstacleSet(state) :
          Manhattan(p.position, o.position) = 1

(* C4  currentPlayerTurn is null or the id of a player of the roster whose  *)
(* status is Active.                                                        *)
C4_TurnIsActivePlayer ==
    \/ state.currentPlayerTurn = Null
    \/ \E p \in ActiveSet(state) : p.id = state.currentPlayerTurn

(* C5  Move legality: for the turn holder at position p during InProgress,  *)
(* a move to t is accepted if and only if t is in the grid, p and t share   *)
(* a row or a column, the Manhattan distance from p to t is 1, 2 or 3, and  *)
(* no Active player or obstacle stands on a cell strictly between p and t   *)
(* or on t; an accepted move puts the mover on t and changes no other       *)
(* player's position, no pdv, no obstaclesRestants and no obstacle.         *)
C5_MoveLegality ==
    \A c \in Holders : \A t \in Targets :
        LET p == Holder(c).position
            w == Try(c, "MOVE", t)
            legal == /\ InGrid(state, t)
                     /\ p.x = t.x \/ p.y = t.y
                     /\ 1 <= Manhattan(p, t)
                     /\ Manhattan(p, t) <= 3
                     /\ \A cell \in Segment(p, t) : ~Holds(state, cell)
        IN /\ Accepted(w) <=> legal
           /\ Accepted(w) =>
                 /\ w.state.obstacles = state.obstacles
                 /\ Len(w.state.players) = Len(state.players)
                 /\ \A i \in 1..Len(state.players) :
                       LET before == state.players[i]
                           after == w.state.players[i]
                       IN /\ after.id = before.id
                          /\ after.pdv = before.pdv
                          /\ after.obstaclesRestants = before.obstaclesRestants
                          /\ after.position = IF before.id = Holder(c).id
                                              THEN t
                                              ELSE before.position

(* P1 has walked three cells from (3,0) to (0,0); P2, who holds the turn,   *)
(* may walk three cells to (2,0) along the row P1 left, and is refused      *)
(* (6,0), where an obstacle stands                                          *)
C5_WalkedThreeCells ==
    /\ actions = 1
    /\ Len(state.players) = 4
    /\ state.players[1].position = Pos(0, 0)
    /\ state.players[2].position = Pos(5, 0)
    /\ \E c \in Holders :
          /\ Holder(c).id = state.players[2].id
          /\ Accepted(Try(c, "MOVE", Pos(2, 0)))
          /\ Try(c, "MOVE", Pos(2, 0)).state.players[2].position = Pos(2, 0)
          /\ Try(c, "MOVE", Pos(6, 0)).reply
               = Message("ACTION_INVALID", "Trajet bloque par un joueur ou un obstacle.")

C7_DefeatKeepsObstacles ==
    [][ \A p \in Roster(state) : \A q \in Roster(state') :
          ( /\ q.id = p.id
            /\ p.pdv > 0
            /\ q.pdv <= 0 )
          => /\ p.status = "Active"
             /\ q.status = "Defeated"
             /\ q.position = NullPos
             /\ \A o \in ObstacleSet(state) :
                   o.ownerId = p.id => o \in ObstacleSet(state') ]_vars

(* P1 has brought P2 from 2 pdv to 0: P2 is Defeated without a position     *)
(* and its three obstacles stand where it placed them                       *)
C7_FallenOwner ==
    /\ actions = 1
    /\ state.gameStatus = "InProgress"
    /\ Len(state.players) = 4
    /\ state.players[2].pdv = 0
    /\ state.players[2].status = "Defeated"
    /\ state.players[2].position = NullPos
    /\ { o.position : o \in { b \in ObstacleSet(state) :
                                  b.ownerId = state.players[2].id } }
         = { Pos(6, 0), Pos(6, 1), Pos(4, 1) }

C10_LastActiveWins ==
    [][ state.gameStatus = "InProgress" =>
          /\ Cardinality(ActiveSet(state')) = 1 =>
                /\ state'.gameStatus = "Finished"
                /\ \A p \in ActiveSet(state') :
                      /\ state'.winnerId = p.id
                      /\ state'.winner = p.pseudo
          /\ Cardinality(ActiveSet(state')) >= 2 =>
                state'.gameStatus = "InProgress" ]_vars

(* P1 has struck P4, the only other Active player, down to 0 pdv: the game  *)
(* is Finished and P1 is the winner                                         *)
C10_WonByTheLastHit ==
    /\ actions = 1
    /\ Len(state.players) = 4
    /\ state.gameStatus = "Finished"
    /\ state.players[4].pdv = 0
    /\ state.players[4].status = "Defeated"
    /\ ActiveSet(state) = { state.players[1] }
    /\ state.winnerId = state.players[1].id
    /\ state.winner = state.players[1].pseudo

(* C11  Turn order: after every accepted action that leaves the game        *)
(* InProgress, currentPlayerTurn is the id of the first Active player met   *)
(* scanning the roster circularly forward, in join order, from the seat     *)
(* after the actor's, Defeated players being skipped; the actor does not    *)
(* keep the turn.                                                           *)
C11_TurnPassesForward ==
    [][ ( /\ actions' = actions + 1
          /\ state'.gameStatus = "InProgress" )
        => LET n == Len(state'.players)
               actor == CHOOSE i \in 1..n :
                           state'.players[i].id = state.currentPlayerTurn
               seat(k) == ((actor - 1 + k) % n) + 1
               steps == { k \in 1..n : state'.players[seat(k)].status = "Active" }
               first == CHOOSE k \in steps : \A j \in steps : k <= j
           IN /\ \E i \in 1..n : state'.players[i].id = state.currentPlayerTurn
              /\ steps # {}
              /\ state'.currentPlayerTurn = state'.players[seat(first)].id
              /\ state'.currentPlayerTurn # state.currentPlayerTurn ]_vars

(* with P2 and P3 Defeated, P1 has acted and the turn has gone past them to *)
(* P4                                                                       *)
C11_SkippedTheDefeated ==
    /\ actions = 1
    /\ uuids = 10
    /\ state.gameStatus = "InProgress"
    /\ Len(state.players) = 4
    /\ state.players[2].status = "Defeated"
    /\ state.players[3].status = "Defeated"
    /\ state.currentPlayerTurn = state.players[4].id

(* C12  Reset: a reset request received while the status is not Finished is *)
(* refused and leaves the Store as it was; received while the status is     *)
(* Finished it leaves status Lobby, the same gridSize, no player, no        *)
(* obstacle, no turn holder and no winner.                                  *)
C12_ResetOnlyWhenFinished ==
    \A c \in Open :
        LET w == handleResetGame(World, c) IN
        IF state.gameStatus # "Finished"
        THEN /\ w.reply = Message("ACTION_INVALID", "Game is not finished yet.")
             /\ w.state = state
        ELSE /\ w.state.gameStatus = "Lobby"
             /\ w.state.gridSize = state.gridSize
             /\ w.state.players = <<>>
             /\ w.state.obstacles = <<>>
             /\ w.state.currentPlayerTurn = Null
             /\ w.state.winner = NoName
             /\ w.state.winnerId = Null

(* the game P1 won by an attack has been reset: the Store is an empty       *)
(* lobby, the four sockets are open and all spectators, and six obstacles   *)
(* and four players had been given ids before                               *)
C12_ResetAfterVictory ==
    /\ actions = 1
    /\ uuids = 10
    /\ state = createInitialState(DefaultGridSize)
    /\ Len(clients) = 4
    /\ \A c \in 1..Len(clients) : clients[c] = Spectator

(* C13  Rejections change nothing: a move, an attack or a placement that    *)
(* fails a legality check (bounds, straight line, range, path, no target,   *)
(* blocked, stock, adjacency, occupancy) and a join that fails (lobby full, *)
(* blank pseudo, invalid colour) leave every field of the Store as it was,  *)
(* in the engine and through the handler.                                   *)
Refusals(c) ==
    { Dispatch(state, uuids, clients[c].playerId, ActionPayload(type, t)).err :
        type \in ActionTypes, t \in Targets } \ {Ok}

C13_RejectedLeavesStore ==
    /\ \A c \in Holders :
          \A type \in {"MOVE", "ATTACK", "PLACE_OBSTACLE"} : \A t \in Targets :
             LET w == Try(c, type, t)
             IN \/ w.reply.type # "ACTION_INVALID"
                \/ <<w.state, w.uuids>> = <<state, uuids>>
    /\ \A payload \in JoinPayloads :
          LET r == addPlayer(state, uuids, payload.pseudo, payload.color,
                             parseGridSize(payload.gridSize))
          IN \/ r.err = Ok
             \/ <<r.state, r.uuids>> = <<state, uuids>>

(* P1 has placed an obstacle on (5,1), between itself and P4; P4, who holds *)
(* the turn with one obstacle left, can now be refused for each of the nine *)
(* reasons, and a join is refused because the roster is full                *)
C13_EveryRefusal ==
    /\ actions = 1
    /\ Len(state.players) = MAX_PLAYERS
    /\ \E o \in ObstacleSet(state) : o.position = Pos(5, 1)
    /\ addPlayer(state, uuids, ValidPseudo, ValidColor, Null).err
         = "Le lobby est complet."
    /\ \E c \in Holders :
          /\ Holder(c).obstaclesRestants = 1
          /\ { "Case hors limites.",
               "Le deplacement doit etre en ligne droite.",
               "La distance maximale est de 3 cases.",
               "Trajet bloque par un joueur ou un obstacle.",
               "Attaque en ligne droite uniquement.",
               "La portee maximale est de 2 cases.",
               "Aucune cible dans cette direction.",
               "Une entite bloque votre attaque.",
               "La case doit etre adjacente.",
               "Case deja occupee." } \subseteq Refusals(c)

(* C14  Finished is final: while the status is Finished, no action request  *)
(* and no join request, from any socket or from one that connects now,      *)
(* changes the Store; a leave either replaces the Store by a fresh Lobby    *)
(* (the roster became empty) or only takes the leaver out of the roster:    *)
(* status, winner and obstacles stay, and every remaining player keeps its  *)
(* pdv, position, obstaclesRestants and status.  Only a reset ends it.      *)
C14_FinishedIsFinal ==
    state.gameStatus = "Finished" =>
      /\ \A c \in Open :
            /\ \A payload \in PayloadsOf(c) :
                  handleRequestAction(World, c, payload).state = state
            /\ \A payload \in JoinPayloads :
                  handleJoin(World, c, payload).state = state
            /\ LET s == handleDisconnect(World, c).state
               IN \/ /\ s = createInitialState(state.gridSize)
                     /\ Len(state.players) = 1
                     /\ clients[c].playerId = state.players[1].id
                  \/ /\ s.gameStatus = "Finished"
                     /\ s.winner = state.winner
                     /\ s.winnerId = state.winnerId
                     /\ s.gridSize = state.gridSize
                     /\ s.obstacles = state.obstacles
                     /\ s.players = SelectSeq(state.players,
                                              LAMBDA p : p.id # clients[c].playerId)
      /\ \A payload \in JoinPayloads :
            handleJoin(Newcomer, NewSocket, payload).state = state

(* after P1 won, P1's socket closed: the game is still Finished, P1 is      *)
(* still the recorded winner and is no longer in the roster                 *)
C14_WinnerHasLeft ==
    /\ state.gameStatus = "Finished"
    /\ actions = 1
    /\ state.winnerId = 1
    /\ state.players # <<>>
    /\ \A p \in Roster(state) : p.id # 1 /\ p.status = "Defeated"

(* C15  Departure of the turn holder: when the turn holder leaves while the *)
(* status is InProgress and two or more Active players remain, the turn     *)
(* passes to the first Active player after the leaver's seat, in join       *)
(* order, circularly.                                                       *)
C15_TurnPassesFromLeaverSeat ==
    [][ ( /\ state.gameStatus = "InProgress"
          /\ \E p \in Roster(state) : p.id = state.currentPlayerTurn
          /\ \A q \in Roster(state') : q.id # state.currentPlayerTurn
          /\ Cardinality(ActiveSet(state')) >= 2 )
        => LET n == Len(state.players)
               leaver == CHOOSE i \in 1..n :
                            state.players[i].id = state.currentPlayerTurn
               seat(k) == ((leaver - 1 + k) % n) + 1
               steps == { k \in 1..(n - 1) :
                            state.players[seat(k)].status = "Active" }
               first == CHOOSE k \in steps : \A j \in steps : k <= j
           IN state'.currentPlayerTurn = state.players[seat(first)].id ]_vars

(* C16  Last departure: in any status, when the socket of the only player   *)
(* of the roster closes, the Store becomes a fresh Lobby of the same        *)
(* gridSize: status Lobby, no player, no obstacle, no turn holder, no       *)
(* winner.                                                                  *)
C16_LastLeaveStartsAfresh ==
    \A c \in Open :
        ( /\ clients[c].type = "player"
          /\ Len(state.players) = 1
          /\ state.players[1].id = clients[c].playerId )
        => LET s == handleDisconnect(World, c).state
           IN /\ s.gameStatus = "Lobby"
              /\ s.gridSize = state.gridSize
              /\ s.players = <<>>
              /\ s.obstacles = <<>>
              /\ s.currentPlayerTurn = Null
              /\ s.winner = NoName
              /\ s.winnerId = Null

(* three of the four sockets have closed after P1 won; the socket of the    *)
(* last player of the roster is open, the status is Finished and obstacles  *)
(* stand on the grid: its departure is the next thing that can happen       *)
C16_OneLeftAfterTheGame ==
    /\ actions = 1
    /\ state.gameStatus = "Finished"
    /\ state.obstacles # <<>>
    /\ Len(state.players) = 1
    /\ Cardinality(Open) = 1
    /\ \A c \in Open :
          /\ clients[c].playerId = state.players[1].id
          /\ handleDisconnect(World, c).state = createInitialState(DefaultGridSize)

(* C17  Leave is idempotent: removePlayer for an id that is not in the      *)
(* roster changes nothing in the Store (no turn advance, no status change), *)
(* so removing a player twice leaves the Store that removing it once        *)
(* leaves.                                                                  *)
PlayerIds == 0..(uuids + 1) \cup {Null}

C17_LeaveIsIdempotent ==
    \A id \in PlayerIds :
        /\ (\A p \in Roster(state) : p.id # id) => removePlayer(state, id) = state
        /\ removePlayer(removePlayer(state, id), id) = removePlayer(state, id)

(* P2 has left a game in progress where P3 now holds the turn: removing P2  *)
(* again, or an obstacle's id, changes nothing                              *)
C17_AlreadyGone ==
    /\ state.gameStatus = "InProgress"
    /\ Len(state.players) = 3
    /\ \A p \in Roster(state) : p.id # 2
    /\ state.currentPlayerTurn = 3
    /\ Cardinality(ActiveSet(state)) = 3
    /\ removePlayer(state, 2) = state
    /\ removePlayer(state, uuids) = state

(* C18  Refused joins.  Vocabulary: a blank name, a colour that is '#'     *)
(* followed by exactly 6 hex digits, the names and colours tried, and the  *)
(* sockets that may ask: the open ones and one that connects now.          *)
Blank(str) == \A i \in 1..Len(str) : str[i] = " "

IsHexColor(str) ==
    /\ Len(str) = 7
    /\ str[1] = "#"
    /\ \A i \in 2..7 :
          str[i] \in { "0", "1", "2", "3", "4", "5", "6", "7", "8", "9",
                       "a", "b", "c", "d", "e", "f",
                       "A", "B", "C", "D", "E", "F" }

ColorsTried ==
    Colors \cup { <<>>,
                  <<"#", "f", "f", "0", "0", "a", "a", " ">>,
                  <<"#", "f", "f", "0", "0", "a", "a", "0">>,
                  <<"#", "f", "f", " ", "0", "a", "a">> }

Askers ==
    { [w |-> World, c |-> c] : c \in Open } \cup { [w |-> Newcomer, c |-> NewSocket] }

(* spectators are interchangeable: the oldest open one and the newcomer *)
FirstAskers ==
    { a \in Askers :
        /\ a.w.clients[a.c].type = "spectator"
        /\ \/ a.c = NewSocket
           \/ \A d \in Open : clients[d].type = "spectator" => a.c <= d }

(* a join that must be refused leaves the Store and the caller as they were *)
Unseated(a, payload) ==
    LET w == handleJoin(a.w, a.c, payload)
    IN /\ w.state = state
       /\ w.uuids = uuids
       /\ w.clients = a.w.clients
       /\ w.reply.type \in {"ACTION_INVALID", "JOINED_AS_SPECTATOR"}

(* The join of a full roster or of a status other than Lobby, whoever asks *)
LateJoinsRefused ==
    ( Len(state.players) >= 4 \/ state.gameStatus # "Lobby" )
    => \A a \in Askers : \A payload \in JoinPayloads : Unseated(a, payload)

C19_LobbyCorners ==
    state.gameStatus = "Lobby" =>
      /\ Len(state.players) <= 4
      /\ \A i \in 1..Len(state.players) :
            state.players[i].position =
              << Pos(0, 0),
                 Pos(state.gridSize - 1, 0),
                 Pos(0, state.gridSize - 1),
                 Pos(state.gridSize - 1, state.gridSize - 1) >>[i]

(* three players joined, the second left: the third, who stood bottom-left, *)
(* is now second in the roster and stands top-right                         *)
C19_MovedUpACorner ==
    /\ state.gameStatus = "Lobby"
    /\ uuids = 3
    /\ Len(state.players) = 2
    /\ state.players[1].id = 1
    /\ state.players[2].id = 3
    /\ state.players[2].position = Pos(8, 0)

(* C20  Attack cost: an accepted attack costs the caster 2 pdv, that is,    *)
(* after every accepted ATTACK the attacker's pdv is 2 lower than before.   *)
C20_AttackCostsTwo ==
    \A c \in Holders : \A t \in Targets :
        LET w == Try(c, "ATTACK", t) IN
        Accepted(w) =>
          \E i \in 1..Len(w.state.players) :
             /\ w.state.players[i].id = Holder(c).id
             /\ w.state.players[i].pdv = Holder(c).pdv - 2

(* C21  Order of the checks: a PLACE_OBSTACLE of the turn holder who has no *)
(* obstacle left, on a cell of the grid that is not one of its 8            *)
(* neighbours, is refused for the adjacency ("La case doit etre             *)
(* adjacente."), not for the stock: geometry is judged before stock.        *)
C21_AdjacencyBeforeStock ==
    \A c \in Holders : \A t \in Targets :
        ( /\ Holder(c).obstaclesRestants = 0
          /\ InGrid(state, t)
          /\ \/ Abs(Holder(c).position.x - t.x) > 1
             \/ Abs(Holder(c).position.y - t.y) > 1 )
        => Try(c, "PLACE_OBSTACLE", t).reply
             = Message("ACTION_INVALID", "La case doit etre adjacente.")

(* C22  Preconditions in the engine: executeMove, executeAttack and         *)
(* executePlaceObstacle, called without the guards of handleRequestAction,  *)
(* fail and change nothing when the status is not InProgress or when the    *)
(* Active player who acts does not hold the turn.                           *)
C22_EngineChecksStatusAndTurn ==
    \A p \in ActiveSet(state) :
        ( \/ state.gameStatus # "InProgress"
          \/ state.currentPlayerTurn # p.id )
        => \A t \in Targets :
             \A r \in { executeMove(state, uuids, p.id, t),
                        executeAttack(state, uuids, p.id, t),
                        executePlaceObstacle(state, uuids, p.id, t) } :
                /\ r.err # Ok
                /\ r.state = state
                /\ r.uuids = uuids

(* C23  Roster grows only in Lobby: addPlayer, called without the guards of *)
(* handleJoin, refuses the join and changes nothing whenever the status is  *)
(* InProgress or Finished, also when a leave has brought the roster under   *)
(* 4 players.                                                               *)
C23_EngineJoinsOnlyInLobby ==
    state.gameStatus \in {"InProgress", "Finished"} =>
      \A payload \in JoinPayloads :
         LET r == addPlayer(state, uuids, payload.pseudo, payload.color,
                            parseGridSize(payload.gridSize))
         IN /\ r.err # Ok
            /\ r.state = state
            /\ r.uuids = uuids

(* C24  Departure of another player: when the socket of an Active player    *)
(* who does not hold the turn closes while the status is InProgress, and    *)
(* two or more Active players remain, the turn passes from the holder to    *)
(* the first Active player after the holder's seat, in join order,          *)
(* circularly, although the holder has sent no action.                      *)
C24_LeaveOfAnotherPassesTurn ==
    \A c \in Open :
        LET n == Len(state.players)
            w == handleDisconnect(World, c)
            leaver == clients[c].playerId
        IN ( /\ clients[c].type = "player"
             /\ state.gameStatus = "InProgress"
             /\ \E p \in ActiveSet(state) : p.id = leaver
             /\ leaver # state.currentPlayerTurn
             /\ \E p \in Roster(state) : p.id = state.currentPlayerTurn
             /\ Cardinality({ p \in ActiveSet(state) : p.id # leaver }) >= 2 )
           => LET holder == CHOOSE i \in 1..n :
                               state.players[i].id = state.currentPlayerTurn
                  seat(k) == ((holder - 1 + k) % n) + 1
                  steps == { k \in 1..(n - 1) :
                               /\ state.players[seat(k)].status = "Active"
                               /\ state.players[seat(k)].id # leaver }
                  first == CHOOSE k \in steps : \A j \in steps : k <= j
              IN /\ w.state.gameStatus = "InProgress"
                 /\ w.state.currentPlayerTurn = state.players[seat(first)].id
                 /\ w.state.currentPlayerTurn # state.currentPlayerTurn

(* P3 has left the game of four while P1 held the turn and before any       *)
(* action: the turn is P2's, and P1 stands where it stood                    *)
C24_TurnTakenFromP1 ==
    /\ actions = 0
    /\ state.gameStatus = "InProgress"
    /\ Len(state.players) = 3
    /\ \A p \in Roster(state) : p.status = "Active" /\ p.id \in {1, 2, 4}
    /\ state.currentPlayerTurn = 2
    /\ state.players[1].position = Gathered.state.players[1].position
    /\ clients[3] = Closed

(* C25  Life cycle: over joins, actions, departures and resets the status   *)
(* changes only from Lobby to InProgress, from InProgress to Finished and   *)
(* from Finished to Lobby; it never goes from Lobby to Finished, from       *)
(* InProgress to Lobby or from Finished to InProgress in one step.          *)
C25_StatusCycle ==
    [][ \/ state'.gameStatus = state.gameStatus
        \/ << state.gameStatus, state'.gameStatus >>
             \in { << "Lobby", "InProgress" >>,
                   << "InProgress", "Finished" >>,
                   << "Finished", "Lobby" >> } ]_vars

(* once round the cycle: the game P1 won by an attack was reset and the     *)
(* four sockets have joined again, so a second game is in progress          *)
C25_SecondGame ==
    /\ actions = 1
    /\ uuids = 14
    /\ state.gameStatus = "InProgress"
    /\ Len(state.players) = 4
    /\ state.players[1].id = 11
    /\ state.currentPlayerTurn = 11
    /\ state.obstacles = <<>>

----------------------------------------------------------------------------
(* Targets with fractional coordinates.  A target arrives as JSON numbers,  *)
(* so its coordinates need not be integers.  Here a target is given in      *)
(* halves of a cell: the target (0.5, 0) is Pos(1, 0), the cell (3, 2) is   *)
(* Pos(6, 4).  Positions of players and obstacles stay in cells.            *)

FineTargets ==
    { Pos(hx, hy) : hx \in -2..(2 * DefaultGridSize), hy \in -2..(2 * DefaultGridSize) }

(* ensureTargetValid on a target in halves *)
ensureTargetValidFine(s, target) ==
    ~ \/ target.x < 0
      \/ target.x >= 2 * s.gridSize
      \/ target.y < 0
      \/ target.y >= 2 * s.gridSize

(* The while loop of isPathClear from cell (x, y) to a target in halves.    *)
(* The loop ends when (x, y) is the target or is occupied.  Once (x, y) is  *)
(* off the grid neither can happen any more, x and y moving away from the   *)
(* grid where the target and every player and obstacle are: the loop goes   *)
(* on for ever and the call does not return.                                *)
Hangs == "does not return"

RECURSIVE PathScanFine(_, _, _, _, _, _)
PathScanFine(s, x, y, dx, dy, target) ==
    IF 2 * x # target.x \/ 2 * y # target.y
    THEN IF isOccupied(s, Pos(x, y))
         THEN "blocked"
         ELSE IF x < 0 \/ x >= s.gridSize \/ y < 0 \/ y >= s.gridSize
         THEN Hangs
         ELSE PathScanFine(s, x + dx, y + dy, dx, dy, target)
    ELSE IF isOccupied(s, Pos(x, y)) THEN "blocked" ELSE "clear"

isPathClearFine(s, start, target) ==
    LET dx == Sign(target.x - 2 * start.x)
        dy == Sign(target.y - 2 * start.y)
    IN PathScanFine(s, start.x + dx, start.y + dy, dx, dy, target)

(* executeMove on a target in halves: the message of the Error it throws,   *)
(* Ok when it moves the player, Hangs when it does not return               *)
executeMoveFine(s, playerId, target) ==
    IF requireActivePlayer(s, playerId) # Ok
    THEN requireActivePlayer(s, playerId)
    ELSE IF ~ensureTargetValidFine(s, target)
    THEN "Case hors limites."
    ELSE
      LET player == PlayerOf(s, playerId)
          halves == Abs(2 * player.position.x - target.x)
                      + Abs(2 * player.position.y - target.y)
      IN
      IF ~(2 * player.position.x = target.x \/ 2 * player.position.y = target.y)
      THEN "Le deplacement doit etre en ligne droite."
      ELSE IF halves = 0 \/ halves > 2 * MOVE_RANGE
      THEN "La distance maximale est de 3 cases."
      ELSE LET scan == isPathClearFine(s, player.position, target) IN
           IF scan = Hangs THEN Hangs
           ELSE IF scan = "blocked"
           THEN "Trajet bloque par un joueur ou un obstacle."
           ELSE Ok

(* C26  Termination of a move: every MOVE of the turn holder whose target   *)
(* passes ensureTargetValid (numbers with 0 <= x, y < gridSize), targets    *)
(* with fractional coordinates such as (0.5, 0) included, is answered,      *)
(* accepted or refused: the scan of isPathClear reaches the target and      *)
(* ends.                                                                    *)
C26_MoveAlwaysAnswered ==
    \A c \in Holders : \A target \in FineTargets :
        ensureTargetValidFine(state, target)
        => executeMoveFine(state, Holder(c).id, target) # Hangs

----------------------------------------------------------------------------
(* C27  A game in progress: whenever the status is InProgress, two or more  *)
(* players of the roster are Active and currentPlayerTurn is the id of one  *)
(* of them (never null, never a Defeated player, never a player who left).  *)
C27_InProgressHasHolder ==
    state.gameStatus = "InProgress" =>
      /\ Cardinality({ i \in 1..Len(state.players) :
                         state.players[i].status = "Active" }) >= 2
      /\ state.currentPlayerTurn # Null
      /\ \E i \in 1..Len(state.players) :
            /\ state.players[i].id = state.currentPlayerTurn
            /\ state.players[i].status = "Active"

(* P2 and P3 have fallen and P2 has left: the game goes on between P1 and   *)
(* P4 with the fallen P3 still in the roster, and P4 holds the turn         *)
C27_TwoLeftStanding ==
    /\ state.gameStatus = "InProgress"
    /\ Len(state.players) = 3
    /\ state.players[1].id = 1 /\ state.players[1].status = "Active"
    /\ state.players[2].id = 3 /\ state.players[2].status = "Defeated"
    /\ state.players[3].id = 4 /\ state.players[3].status = "Active"
    /\ state.currentPlayerTurn = 4
    /\ clients[2] = Closed

(* C28  A lobby: whenever the status is Lobby, the roster has at most 3     *)
(* players, each of them Active with 10 pdv and 3 obstacles left, there is  *)
(* no obstacle, no turn holder and no winner.                               *)
C28_LobbyIsFresh ==
    state.gameStatus = "Lobby" =>
      /\ Len(state.players) <= 3
      /\ \A i \in 1..Len(state.players) :
            /\ state.players[i].status = "Active"
            /\ state.players[i].pdv = 10
            /\ state.players[i].obstaclesRestants = 3
      /\ state.obstacles = <<>>
      /\ state.currentPlayerTurn = Null
      /\ state.winner = NoName
      /\ state.winnerId = Null

(* the game P1 won by an attack has been reset and three of the four        *)
(* sockets have joined again: a lobby of three after a game with obstacles  *)
C28_ThreeBackInTheLobby ==
    /\ actions = 1
    /\ uuids = 13
    /\ state.gameStatus = "Lobby"
    /\ Len(state.players) = 3
    /\ state.players[3].id = 13
    /\ Cardinality({ c \in Open : clients[c].type = "spectator" }) = 1

(* C29  No draw: with ATTACK_COST 0 every Finished state has a winner       *)
(* recorded, winnerId is not null, since no action and no departure takes   *)
(* the Active players from two or more to none.                             *)
C29_FinishedHasWinner ==
    state.gameStatus = "Finished" =>
      /\ state.winnerId # Null
      /\ state.winner # NoName
      /\ Cardinality({ i \in 1..Len(state.players) :
                         state.players[i].status = "Active" }) <= 1

(* P2 and P3 had fallen and P4 has left before any further action: P1, the  *)
(* last Active player, has won without striking                             *)
C29_WonByDeparture ==
    /\ actions = 0
    /\ state.gameStatus = "Finished"
    /\ state.winnerId = 1
    /\ Len(state.players) = 3
    /\ state.players[1].id = 1 /\ state.players[1].status = "Active"
    /\ state.players[2].status = "Defeated"
    /\ state.players[3].status = "Defeated"
    /\ clients[4] = Closed

(* C30  Players: in every state, each player of the roster is Defeated if   *)
(* and only if its pdv is 0 or less, and if and only if it has no position; *)
(* its pdv is between 0 and 10; from one state to the next the pdv of a     *)
(* player does not increase and a Defeated player stays Defeated as long as *)
(* it is in the roster.                                                     *)
C30_DefeatIsForGood ==
    /\ [](\A p \in Roster(state) :
            /\ p.status \in {"Active", "Defeated"}
            /\ p.status = "Defeated" <=> p.pdv <= 0
            /\ p.status = "Defeated" <=> p.position = NullPos
            /\ p.pdv \in 0..10)
    /\ [][ \A p \in Roster(state) : \A q \in Roster(state') :
             q.id = p.id =>
               /\ q.pdv <= p.pdv
               /\ p.status = "Defeated" => q.status = "Defeated" ]_vars

(* the last hit of the game: three players are Defeated, with 0 pdv and no  *)
(* position, and the winner, wounded, stands on the grid                    *)
C30_ThreeFallenOneWounded ==
    /\ actions = 1
    /\ Len(state.players) = 4
    /\ Cardinality({ p \in Roster(state) :
                       /\ p.status = "Defeated"
                       /\ p.pdv = 0
                       /\ p.position = NullPos }) = 3
    /\ \E p \in Roster(state) :
          /\ p.status = "Active"
          /\ p.pdv \in 1..9
          /\ InGrid(state, p.position)

(* C31  Obstacle stock: in every state, each player of the roster has       *)
(* between 0 and 3 obstaclesRestants and owns at most 3 minus that many     *)
(* obstacles of the obstacle set; from one state to the next the            *)
(* obstaclesRestants of a player does not increase.                         *)
C31_StockBoundsObstacles ==
    /\ [](\A p \in Roster(state) :
            /\ p.obstaclesRestants \in 0..3
            /\ Cardinality({ i \in 1..Len(state.obstacles) :
                               state.obstacles[i].ownerId = p.id })
                 <= 3 - p.obstaclesRestants)
    /\ [][ \A p \in Roster(state) : \A q \in Roster(state') :
             q.id = p.id => q.obstaclesRestants <= p.obstaclesRestants ]_vars

(* P1 has cleared the only obstacle P3 had placed: P2 has spent its stock   *)
(* and owns three obstacles, P3 has two left and owns none                  *)
C31_SpentAndCleared ==
    /\ actions = 1
    /\ Len(state.players) = 4
    /\ state.players[2].obstaclesRestants = 0
    /\ Cardinality({ i \in 1..Len(state.obstacles) :
                       state.obstacles[i].ownerId = state.players[2].id }) = 3
    /\ state.players[3].obstaclesRestants = 2
    /\ \A i \in 1..Len(state.obstacles) :
          state.obstacles[i].ownerId # state.players[3].id

====
